---- MODULE Spec2Model ----
(***************************************************************************)
(* Course scheduler: the two request handlers of main.py.                  *)
(*   create_schedule   : lookup maps, pre-solve validation, the CP-SAT     *)
(*                       timetable model, extraction of the schedule.      *)
(*   distribute_groups : slot partition, one CP-SAT room model per slot,   *)
(*                       extraction of the room bindings.                  *)
(* The CP-SAT solver is an external collaborator: Solve answers with any   *)
(* assignment satisfying every constraint added to the model, or reports   *)
(* infeasibility when there is none.                                       *)
(***************************************************************************)
EXTENDS Integers, Sequences, FiniteSets, TLC

VARIABLES
    request,             \* the request body of the call
    pc,                  \* the handler's position
    response,            \* the HTTP response, NoResponse until the handler ends
    solverCalls,         \* number of solver.Solve calls made so far
    errors,              \* create_schedule: the list of validation messages
    x,                   \* create_schedule: solver.Value of every variable of x
    slot_to_groups,      \* distribute_groups: the slot partition, in dict order
    slot_index,          \* distribute_groups: position of the loop over the slots
    final_distribution   \* distribute_groups: the bindings collected so far

vars == <<request, pc, response, solverCalls, errors, x,
          slot_to_groups, slot_index, final_distribution>>

scheduleVars == <<errors, x>>
roomVars == <<slot_to_groups, slot_index, final_distribution>>

\* ------------------------------------------------------------------------
\* Bounds of the explored requests
\* ------------------------------------------------------------------------
\* largest maxHours of an availability record
MaxHours == 2

THEORY == 0
LAB == 1

\* ------------------------------------------------------------------------
\* Generic helpers
\* ------------------------------------------------------------------------
Range(s) == {s[i] : i \in DOMAIN s}

\* Largest index of the set S, the positions of a sequence carrying one key
\* (a dict comprehension keeps the value of the last occurrence of a key);
\* 0 when there is none.
LastIndex(S) ==
    IF S = {} THEN 0 ELSE CHOOSE i \in S : \A j \in S : j <= i

\* ------------------------------------------------------------------------
\* create_schedule: lookup maps
\* ------------------------------------------------------------------------
\* [(d.Id, t.Id) for d in request.days for t in request.time_intervals]
time_slots(req) ==
    LET nT == Len(req.time_intervals)
    IN [k \in 1..(Len(req.days) * nT) |->
            <<req.days[((k - 1) \div nT) + 1].Id,
              req.time_intervals[((k - 1) % nT) + 1].Id>>]

\* {d.Id: d.Name}.get(d, d) and {t.Id: t.Name}.get(t, t)
day_id_to_name(req, d) ==
    LET i == LastIndex({k \in DOMAIN req.days :
                  req.days[k].Id = d})
    IN IF i = 0 THEN d ELSE req.days[i].Name

time_id_to_name(req, t) ==
    LET i == LastIndex({k \in DOMAIN req.time_intervals :
                  req.time_intervals[k].Id = t})
    IN IF i = 0 THEN t ELSE req.time_intervals[i].Name

\* keys of availability_dict / max_hours_dict: the teacher names
availability_teachers(req) == {a.teacher : a \in Range(req.availability)}

\* availability_dict[teacher]: the (dayId, timeId) tuples of the last record
\* carrying that teacher name
availability_dict(req, teacher) ==
    LET a == req.availability[LastIndex({k \in DOMAIN req.availability :
                  req.availability[k].teacher = teacher})]
    IN [k \in DOMAIN a.slots |-> <<a.slots[k].dayId, a.slots[k].timeId>>]

max_hours_dict(req, teacher) ==
    req.availability[LastIndex({k \in DOMAIN req.availability :
                  req.availability[k].teacher = teacher})].maxHours

\* {g.instructor for g in groups} - set(availability_dict.keys())
missing_teachers(req) ==
    {g.instructor : g \in Range(req.groups)} \ availability_teachers(req)

\* ------------------------------------------------------------------------
\* create_schedule: pre-solve validation
\* ------------------------------------------------------------------------
\* Keys of sessions_per_instructor in insertion order: the instructorIds in
\* order of first occurrence among the groups.
RECURSIVE InstructorOrder(_, _)
InstructorOrder(groups, i) ==
    IF i > Len(groups) THEN <<>>
    ELSE IF \E j \in 1..(i - 1) : groups[j].instructorId = groups[i].instructorId
         THEN InstructorOrder(groups, i + 1)
         ELSE <<groups[i].instructorId>> \o InstructorOrder(groups, i + 1)

RECURSIVE SumSessions(_, _, _)
SumSessions(groups, id, i) ==
    IF i > Len(groups) THEN 0
    ELSE (IF groups[i].instructorId = id THEN groups[i].sessions ELSE 0)
         + SumSessions(groups, id, i + 1)

\* sessions_per_instructor[instructor_id]
sessions_per_instructor(req, id) == SumSessions(req.groups, id, 1)

\* instructor_id in availability_map
in_availability_map(req, id) ==
    \E a \in Range(req.availability) : a.teacherId = id

\* availability_map[instructor_id]: the last record with that teacherId
availability_map(req, id) ==
    req.availability[LastIndex({k \in DOMAIN req.availability :
                  req.availability[k].teacherId = id})]

\* Variant of Rule1: the comparison made inclusive.
Rule1_Inclusive(availability, total_sessions) ==
    Len(availability.slots) <= total_sessions

\* Rule 1: available slots < assigned sessions
Rule1(availability, total_sessions) ==
    Len(availability.slots) < total_sessions

\* Rule 2: maxHours == 0 but sessions assigned
Rule2(availability, total_sessions) ==
    availability.maxHours = 0 /\ total_sessions > 0

\* Rule 3: sessions > maxHours
Rule3(availability, total_sessions) ==
    availability.maxHours > 0 /\ total_sessions > availability.maxHours

\* Variant of InstructorErrors: the three rules chained with elif, so that the
\* first violated rule hides the later ones.
InstructorErrors_FirstRuleOnly(req, id) ==
    LET total_sessions == sessions_per_instructor(req, id)
    IN IF ~in_availability_map(req, id)
       THEN << <<"NoAvailabilityDefined", id>> >>
       ELSE LET availability == availability_map(req, id)
            IN IF Len(availability.slots) < total_sessions
               THEN << <<"InsufficientSlots", availability.teacher, id,
                         total_sessions, Len(availability.slots)>> >>
               ELSE IF availability.maxHours = 0 /\ total_sessions > 0
               THEN << <<"ZeroHourBudgetViolation", availability.teacher, id,
                         total_sessions>> >>
               ELSE IF availability.maxHours > 0
                       /\ total_sessions > availability.maxHours
               THEN << <<"HourBudgetExceeded", availability.teacher, id,
                         total_sessions, availability.maxHours>> >>
               ELSE <<>>

\* The messages (f-strings, here the tuple of the interpolated values behind
\* the name of the rule) one iteration of the validation loop appends.
InstructorErrors(req, id) ==
    LET total_sessions == sessions_per_instructor(req, id)
    IN IF ~in_availability_map(req, id)
       THEN << <<"NoAvailabilityDefined", id>> >>
       ELSE LET availability == availability_map(req, id)
            IN (IF Rule1(availability, total_sessions)
                THEN << <<"InsufficientSlots", availability.teacher, id,
                          total_sessions, Len(availability.slots)>> >>
                ELSE <<>>)
               \o
               (IF Rule2(availability, total_sessions)
                THEN << <<"ZeroHourBudgetViolation", availability.teacher, id,
                          total_sessions>> >>
                ELSE <<>>)
               \o
               (IF Rule3(availability, total_sessions)
                THEN << <<"HourBudgetExceeded", availability.teacher, id,
                          total_sessions, availability.maxHours>> >>
                ELSE <<>>)

RECURSIVE CollectErrors(_, _, _)
CollectErrors(req, order, i) ==
    IF i > Len(order) THEN <<>>
    ELSE InstructorErrors(req, order[i]) \o CollectErrors(req, order, i + 1)

\* the errors list after the loop over sessions_per_instructor.items()
ValidationErrors(req) ==
    CollectErrors(req, InstructorOrder(req.groups, 1), 1)

\* ------------------------------------------------------------------------
\* create_schedule: the CP-SAT model
\* ------------------------------------------------------------------------
\* range(g.sessions)
SessionRange(g) == 0..(g.sessions - 1)

\* the (group position, session index) pairs of
\* "for g in groups: for s_idx in range(g.sessions)"
SessionIdx(req) ==
    UNION {{<<i, s>> : s \in SessionRange(req.groups[i])} : i \in DOMAIN req.groups}

\* the key (g.id, s_idx, d, t) for the group at position i and the slot at
\* position k of time_slots
XKey(req, i, s, k) ==
    <<req.groups[i].id, s, time_slots(req)[k][1], time_slots(req)[k][2]>>

\* keys of the dict x; a key written twice (two groups with one id, a slot
\* listed twice) is one entry and one Boolean variable
XKeys(req) ==
    {XKey(req, p[1], p[2], k) : p \in SessionIdx(req), k \in DOMAIN time_slots(req)}

\* A sum of Boolean variables: the number of its terms with value 1.  A term
\* is <<group position, session index, slot position>>, so that a variable
\* the generator yields twice is counted twice.
Ones(req, val, terms) ==
    Cardinality({t \in terms : val[XKey(req, t[1], t[2], t[3])] = 1})

\* Variant of ExactlyOnce: "== 1" written "<= 1".
ExactlyOnce_AtMostOnce(req, val) ==
    \A p \in SessionIdx(req) :
        Ones(req, val, {<<p[1], p[2], k>> : k \in DOMAIN time_slots(req)}) <= 1

\* 1) Each session must be scheduled exactly once
ExactlyOnce(req, val) ==
    \A p \in SessionIdx(req) :
        Ones(req, val, {<<p[1], p[2], k>> : k \in DOMAIN time_slots(req)}) = 1

\* 2) Instructor cannot teach two courses at the same time
InstructorNoOverlap(req, val) ==
    \A inst \in {g.instructor : g \in Range(req.groups)} :
        \A k \in DOMAIN time_slots(req) :
            Ones(req, val,
                 {<<p[1], p[2], k>> : p \in
                    {q \in SessionIdx(req) : req.groups[q[1]].instructor = inst}})
                <= 1

\* Variant of AvailabilityMask: the membership test inverted.
AvailabilityMask_Inverted(req, val) ==
    \A p \in SessionIdx(req) :
        LET inst == req.groups[p[1]].instructor
            allowed_slots == IF inst \in availability_teachers(req)
                             THEN Range(availability_dict(req, inst))
                             ELSE {}
        IN \A k \in DOMAIN time_slots(req) :
              time_slots(req)[k] \in allowed_slots
                  => val[XKey(req, p[1], p[2], k)] = 0

\* 3) Instructor availability constraint (based on dayId/timeId)
AvailabilityMask(req, val) ==
    \A p \in SessionIdx(req) :
        LET inst == req.groups[p[1]].instructor
            allowed_slots == IF inst \in availability_teachers(req)
                             THEN Range(availability_dict(req, inst))
                             ELSE {}
        IN \A k \in DOMAIN time_slots(req) :
              time_slots(req)[k] \notin allowed_slots
                  => val[XKey(req, p[1], p[2], k)] = 0

\* Variant of CourseNoOverlap: the sum taken per group, sibling groups of the
\* course left out.
CourseNoOverlap_PerGroup(req, val) ==
    \A i \in DOMAIN req.groups :
        \A k \in DOMAIN time_slots(req) :
            Ones(req, val,
                 {<<p[1], p[2], k>> : p \in {q \in SessionIdx(req) : q[1] = i}})
                <= 1

\* 4) No two groups for the same course can overlap (use courseId)
CourseNoOverlap(req, val) ==
    \A cid \in {g.courseId : g \in Range(req.groups)} :
        \A k \in DOMAIN time_slots(req) :
            Ones(req, val,
                 {<<p[1], p[2], k>> : p \in
                    {q \in SessionIdx(req) : req.groups[q[1]].courseId = cid}})
                <= 1

\* 5) Maximum number of simultaneous courses per slot
SlotCapacity(req, val) ==
    \A k \in DOMAIN time_slots(req) :
        Ones(req, val, {<<p[1], p[2], k>> : p \in SessionIdx(req)})
            <= req.max_courses_per_slot

\* (2 if g.type == 0 else 1)
HourCost(g) == IF g.type = THEORY THEN 2 ELSE 1

\* 6) Maximum hours per teacher
HourBudget(req, val) ==
    \A inst \in {g.instructor : g \in Range(req.groups)} :
        inst \in availability_teachers(req) =>
            LET mine == {t \in SessionIdx(req) \X DOMAIN time_slots(req) :
                            req.groups[t[1][1]].instructor = inst}
                terms(w) == {<<t[1][1], t[1][2], t[2]>> : t \in
                               {u \in mine : HourCost(req.groups[u[1][1]]) = w}}
            IN 2 * Ones(req, val, terms(2)) + Ones(req, val, terms(1))
                   <= max_hours_dict(req, inst)

\* every constraint added to the model
Feasible(req, val) ==
    /\ ExactlyOnce(req, val)
    /\ InstructorNoOverlap(req, val)
    /\ AvailabilityMask(req, val)
    /\ CourseNoOverlap(req, val)
    /\ SlotCapacity(req, val)
    /\ HourBudget(req, val)

\* solver.Solve(model): the assignments CP-SAT may answer with
Solutions(req) == {val \in [XKeys(req) -> {0, 1}] : Feasible(req, val)}

\* ------------------------------------------------------------------------
\* create_schedule: collect solution
\* ------------------------------------------------------------------------
\* one entry of the schedule list
Entry(req, i, s, k) ==
    LET g == req.groups[i]
        sl == time_slots(req)[k]
    IN [GroupId |-> g.id, CourseCode |-> g.code, CourseId |-> g.courseId,
        CourseFamily |-> g.course, Session |-> s + 1,
        Instructor |-> g.instructor, InstructorId |-> g.instructorId,
        DayId |-> sl[1], Day |-> day_id_to_name(req, sl[1]),
        TimeId |-> sl[2], Time |-> time_id_to_name(req, sl[2]),
        Type |-> g.type]

\* solver.Value(x[...]) == 1
Selected(req, val, i, s, k) == val[XKey(req, i, s, k)] = 1

\* the entries appended for session s of the group at position i, from slot
\* position k on
RECURSIVE CollectSlots(_, _, _, _, _)
CollectSlots(req, val, i, s, k) ==
    IF k > Len(time_slots(req)) THEN <<>>
    ELSE (IF Selected(req, val, i, s, k) THEN <<Entry(req, i, s, k)>> ELSE <<>>)
         \o CollectSlots(req, val, i, s, k + 1)

RECURSIVE CollectSessions(_, _, _, _)
CollectSessions(req, val, i, s) ==
    IF s >= req.groups[i].sessions THEN <<>>
    ELSE CollectSlots(req, val, i, s, 1) \o CollectSessions(req, val, i, s + 1)

RECURSIVE CollectGroups(_, _, _)
CollectGroups(req, val, i) ==
    IF i > Len(req.groups) THEN <<>>
    ELSE CollectSessions(req, val, i, 0) \o CollectGroups(req, val, i + 1)

CollectSchedule(req, val) == CollectGroups(req, val, 1)

\* ------------------------------------------------------------------------
\* create_schedule: the explored requests
\* ------------------------------------------------------------------------
GroupIds == {"g1", "g2"}
InstructorNames == {"A", "B"}
InstructorIds == {"i1", "i2"}
CourseIds == {"c1", "c2"}
Types == {THEORY, LAB}
SessionCounts == {1, 2}

Days == <<[Id |-> "d1", Name |-> "Mon"], [Id |-> "d2", Name |-> "Tue"]>>
TimeIntervals == <<[Id |-> "t1", Name |-> "08:00"]>>

Slot(d, t) == [dayId |-> d, dayName |-> d, timeId |-> t, timeName |-> t]

SlotLists ==
    { <<Slot("d1", "t1")>>,
      <<Slot("d1", "t1"), Slot("d2", "t1")>> }

Groups ==
    [id : GroupIds, instructorId : InstructorIds, courseId : CourseIds,
     code : {"X101"}, sessions : SessionCounts, instructor : InstructorNames,
     course : {"X"}, type : Types]

AvailabilityItems ==
    [teacher : InstructorNames, teacherId : InstructorIds,
     slots : SlotLists, maxHours : 0..MaxHours]

\* Up to renaming, the first group is g1 of course c1, taught by A (i1).
FirstGroups ==
    {g \in Groups : g.id = "g1" /\ g.instructor = "A" /\ g.instructorId = "i1"
                    /\ g.courseId = "c1"}

GroupLists ==
    {<<>>} \cup {<<g>> : g \in FirstGroups}
           \cup {<<g, h>> : g \in FirstGroups, h \in Groups}

\* The first group is taught by A: a request with no record for A ends at the
\* missing-instructor check, so the lists explored past it start with A's.
FirstAvailabilityItems == {a \in AvailabilityItems : a.teacher = "A"}

AvailabilityLists ==
    {<<>>} \cup {<<a>> : a \in FirstAvailabilityItems}
           \cup {<<a, b>> : a \in FirstAvailabilityItems, b \in AvailabilityItems}

Requests ==
    [groups : GroupLists, availability : AvailabilityLists,
     days : {Days}, time_intervals : {TimeIntervals},
     max_courses_per_slot : {1, 2}]

NoResponse == [status |-> 0]

\* ------------------------------------------------------------------------
\* create_schedule: the handler, step by step
\* ------------------------------------------------------------------------
InitSchedule ==
    /\ request \in Requests
    /\ pc = "lookup"
    /\ errors = <<>>
    /\ x = <<>>
    /\ solverCalls = 0
    /\ response = NoResponse
    /\ slot_to_groups = <<>>
    /\ slot_index = 1
    /\ final_distribution = <<>>

\* Quick validation: ensure every instructor appears in availability
MissingTeachers ==
    /\ pc = "lookup"
    /\ missing_teachers(request) # {}
    /\ response' = [status |-> 400,
                    detail |-> <<"Instructors missing in availability",
                                 missing_teachers(request)>>]
    /\ pc' = "done"
    /\ UNCHANGED <<request, errors, x, solverCalls, roomVars>>

\* Validation checks: the loop over sessions_per_instructor, then the raise
Validate ==
    /\ pc = "lookup"
    /\ missing_teachers(request) = {}
    /\ errors' = ValidationErrors(request)
    /\ IF errors' # <<>>
       THEN /\ response' = [status |-> 400, detail |-> errors']
            /\ pc' = "done"
       ELSE /\ pc' = "solve"
            /\ UNCHANGED response
    /\ UNCHANGED <<request, x, solverCalls, roomVars>>

\* status = solver.Solve(model), OPTIMAL or FEASIBLE
SolveFeasible ==
    /\ pc = "solve"
    /\ \E val \in Solutions(request) : x' = val
    /\ solverCalls' = solverCalls + 1
    /\ pc' = "collect"
    /\ UNCHANGED <<request, errors, response, roomVars>>

\* status = solver.Solve(model), anything else
SolveInfeasible ==
    /\ pc = "solve"
    /\ Solutions(request) = {}
    /\ solverCalls' = solverCalls + 1
    /\ response' = [status |-> 400, detail |-> "No feasible schedule found."]
    /\ pc' = "done"
    /\ UNCHANGED <<request, errors, x, roomVars>>

\* Collect solution and return
Collect ==
    /\ pc = "collect"
    /\ response' = [status |-> 200, schedule |-> CollectSchedule(request, x)]
    /\ pc' = "done"
    /\ UNCHANGED <<request, errors, x, solverCalls, roomVars>>

NextSchedule ==
    \/ MissingTeachers
    \/ Validate
    \/ SolveFeasible
    \/ SolveInfeasible
    \/ Collect

SpecSchedule == InitSchedule /\ [][NextSchedule]_vars

\* ------------------------------------------------------------------------
\* distribute_groups: slot partition
\* ------------------------------------------------------------------------
\* slot = (g.slot.dayId, g.slot.timeId)
SlotOf(g) == <<g.slot.dayId, g.slot.timeId>>

\* Keys of slot_to_groups in insertion order: the slots in order of first
\* occurrence among the scheduled groups.
RECURSIVE SlotOrder(_, _)
SlotOrder(scheduled_groups, i) ==
    IF i > Len(scheduled_groups) THEN <<>>
    ELSE IF \E j \in 1..(i - 1) : SlotOf(scheduled_groups[j]) = SlotOf(scheduled_groups[i])
         THEN SlotOrder(scheduled_groups, i + 1)
         ELSE <<SlotOf(scheduled_groups[i])>> \o SlotOrder(scheduled_groups, i + 1)

\* slot_to_groups as the list of its items: (slot, groups_in_slot), the groups
\* of a slot in request order
SlotPartition(scheduled_groups) ==
    LET order == SlotOrder(scheduled_groups, 1)
    IN [n \in DOMAIN order |->
          [slot |-> order[n],
           groups |-> SelectSeq(scheduled_groups, LAMBDA g : SlotOf(g) = order[n])]]

\* ------------------------------------------------------------------------
\* distribute_groups: the CP-SAT model of one slot
\* ------------------------------------------------------------------------
\* Variant of Compatible: the type test left out.
Compatible_CapacityOnly(g, r) == r.capacity >= g.students_count

\* Variant of Compatible: the capacity test made strict.
Compatible_Strict(g, r) == r.capacity > g.students_count /\ r.course_type = g.type

\* r.capacity >= g.students_count and r.course_type == g.type
Compatible(g, r) == r.capacity >= g.students_count /\ r.course_type = g.type

\* keys of the dict y: (g.id, r.id) of the compatible pairs
YKeys(groups_in_slot, rooms) ==
    {<<groups_in_slot[i].id, rooms[j].id>> :
        <<i, j>> \in {p \in (DOMAIN groups_in_slot) \X (DOMAIN rooms) :
                        Compatible(groups_in_slot[p[1]], rooms[p[2]])}}

\* Constraint 1: each group assigned to exactly one room
OneRoomPerGroup(groups_in_slot, rooms, val) ==
    \A i \in DOMAIN groups_in_slot :
        Cardinality({j \in DOMAIN rooms :
            /\ <<groups_in_slot[i].id, rooms[j].id>> \in DOMAIN val
            /\ val[<<groups_in_slot[i].id, rooms[j].id>>] = 1}) = 1

\* Variant of OneGroupPerRoom: the bound off by one.
OneGroupPerRoom_Two(groups_in_slot, rooms, val) ==
    \A j \in DOMAIN rooms :
        Cardinality({i \in DOMAIN groups_in_slot :
            /\ <<groups_in_slot[i].id, rooms[j].id>> \in DOMAIN val
            /\ val[<<groups_in_slot[i].id, rooms[j].id>>] = 1}) <= 2

\* Constraint 2: each room holds at most one group at a time
OneGroupPerRoom(groups_in_slot, rooms, val) ==
    \A j \in DOMAIN rooms :
        Cardinality({i \in DOMAIN groups_in_slot :
            /\ <<groups_in_slot[i].id, rooms[j].id>> \in DOMAIN val
            /\ val[<<groups_in_slot[i].id, rooms[j].id>>] = 1}) <= 1

\* solver.Solve(model) for one slot: the assignments CP-SAT may answer with
RoomSolutions(groups_in_slot, rooms) ==
    {val \in [YKeys(groups_in_slot, rooms) -> {0, 1}] :
        /\ OneRoomPerGroup(groups_in_slot, rooms, val)
        /\ OneGroupPerRoom(groups_in_slot, rooms, val)}

\* next(r.id for r in rooms if (g.id, r.id) in y and solver.Value(...) == 1)
assigned_room(g, rooms, val) ==
    LET hits == {j \in DOMAIN rooms : /\ <<g.id, rooms[j].id>> \in DOMAIN val
                                      /\ val[<<g.id, rooms[j].id>>] = 1}
    IN rooms[CHOOSE j \in hits : \A j2 \in hits : j <= j2].id

\* the entries appended to final_distribution for one slot
SlotBindings(groups_in_slot, rooms, val) ==
    [i \in DOMAIN groups_in_slot |->
        [id |-> groups_in_slot[i].id,
         slot |-> groups_in_slot[i].slot,
         number_size |-> groups_in_slot[i].students_count,
         type |-> groups_in_slot[i].type,
         roomId |-> assigned_room(groups_in_slot[i], rooms, val)]]

\* ------------------------------------------------------------------------
\* distribute_groups: the explored requests
\* ------------------------------------------------------------------------
MaxStudents == 2

RoomIds == {"r1", "r2"}

ScheduledGroups ==
    [id : GroupIds, code : {"X101"},
     slot : {Slot("d1", "t1"), Slot("d1", "t2")},
     students_count : 1..MaxStudents, type : Types]

Rooms == [id : RoomIds, course_type : Types, capacity : 1..MaxStudents]

ScheduledGroupLists ==
    {<<>>} \cup {<<g>> : g \in ScheduledGroups}
           \cup {<<g, h>> : g \in ScheduledGroups, h \in ScheduledGroups}

RoomLists ==
    {<<>>} \cup {<<r>> : r \in Rooms}
           \cup {<<r, q>> : r \in Rooms, q \in Rooms}
           \cup {<<r, q, p>> : r \in Rooms, q \in Rooms, p \in Rooms}

RoomRequests == [scheduled_groups : ScheduledGroupLists, rooms : RoomLists]

\* ------------------------------------------------------------------------
\* distribute_groups: the handler, step by step
\* ------------------------------------------------------------------------
InitRooms ==
    /\ request \in RoomRequests
    /\ pc = "partition"
    /\ response = NoResponse
    /\ solverCalls = 0
    /\ errors = <<>>
    /\ x = <<>>
    /\ slot_to_groups = <<>>
    /\ slot_index = 1
    /\ final_distribution = <<>>

\* the loop filling slot_to_groups
Partition ==
    /\ pc = "partition"
    /\ slot_to_groups' = SlotPartition(request.scheduled_groups)
    /\ pc' = "slots"
    /\ UNCHANGED <<request, response, solverCalls, scheduleVars,
                   slot_index, final_distribution>>

\* one iteration of the loop over the slots, solver status OPTIMAL or FEASIBLE
SolveSlotFeasible ==
    /\ pc = "slots"
    /\ slot_index <= Len(slot_to_groups)
    /\ \E val \in RoomSolutions(slot_to_groups[slot_index].groups, request.rooms) :
          final_distribution' = final_distribution \o
              SlotBindings(slot_to_groups[slot_index].groups, request.rooms, val)
    /\ solverCalls' = solverCalls + 1
    /\ slot_index' = slot_index + 1
    /\ UNCHANGED <<request, pc, response, scheduleVars, slot_to_groups>>

\* one iteration of the loop over the slots, any other solver status
SolveSlotInfeasible ==
    /\ pc = "slots"
    /\ slot_index <= Len(slot_to_groups)
    /\ RoomSolutions(slot_to_groups[slot_index].groups, request.rooms) = {}
    /\ solverCalls' = solverCalls + 1
    /\ response' = [status |-> 400,
                    detail |-> <<"No feasible room assignment for slot",
                                 slot_to_groups[slot_index].slot[1],
                                 slot_to_groups[slot_index].slot[2]>>]
    /\ pc' = "done"
    /\ UNCHANGED <<request, scheduleVars, roomVars>>

\* return {"scheduled_groups": final_distribution}
ReturnDistribution ==
    /\ pc = "slots"
    /\ slot_index > Len(slot_to_groups)
    /\ response' = [status |-> 200, scheduled_groups |-> final_distribution]
    /\ pc' = "done"
    /\ UNCHANGED <<request, solverCalls, scheduleVars, roomVars>>

NextRooms ==
    \/ Partition
    \/ SolveSlotFeasible
    \/ SolveSlotInfeasible
    \/ ReturnDistribution

SpecRooms == InitRooms /\ [][NextRooms]_vars

\* ========================================================================
\* Properties of create_schedule (checked under SpecSchedule)
\* ========================================================================
ScheduleReturned == pc = "done" /\ response.status = 200

DistinctGroupIds ==
    \A i, j \in DOMAIN request.groups :
        i # j => request.groups[i].id # request.groups[j].id

SameSlotEntries(e, f) == e.DayId = f.DayId /\ e.TimeId = f.TimeId

\* C1: whenever a schedule is returned for a request whose groups have
\* pairwise distinct ids, it holds exactly one entry for every group g and
\* every session 1..g.sessions, and no other entry.
C1_EverySessionExactlyOnce ==
    (ScheduleReturned /\ DistinctGroupIds) =>
        LET sch == response.schedule
            groups == request.groups
        IN /\ \A i \in DOMAIN groups : \A s \in 1..groups[i].sessions :
                 Cardinality({n \in DOMAIN sch :
                     sch[n].GroupId = groups[i].id /\ sch[n].Session = s}) = 1
           /\ \A n \in DOMAIN sch : \E i \in DOMAIN groups :
                 /\ sch[n].GroupId = groups[i].id
                 /\ sch[n].Session \in 1..groups[i].sessions

\* a schedule returned for two groups with distinct ids, one of two sessions
C1_Witness ==
    /\ ScheduleReturned
    /\ DistinctGroupIds
    /\ Len(request.groups) = 2
    /\ \E i \in DOMAIN request.groups : request.groups[i].sessions = 2
    /\ Len(response.schedule) >= 3

\* group ids, teacher names and teacherIds are each pairwise distinct
DistinctRecords ==
    /\ DistinctGroupIds
    /\ \A i, j \in DOMAIN request.availability :
          i # j => /\ request.availability[i].teacher # request.availability[j].teacher
                   /\ request.availability[i].teacherId # request.availability[j].teacherId

\* C2: in every returned schedule no two distinct entries with the same
\* InstructorId have the same (DayId, TimeId).  Stated here for the requests
\* whose group ids, teacher names and teacherIds are each pairwise distinct,
\* a part of the requests the claim covers.
C2_NoInstructorDoubleBooking ==
    (ScheduleReturned /\ DistinctRecords) =>
        \A m, n \in DOMAIN response.schedule :
            (m # n /\ response.schedule[m].InstructorId
                        = response.schedule[n].InstructorId)
                => ~SameSlotEntries(response.schedule[m], response.schedule[n])

\* the availability record the handler consults for a teacher name: the last
\* one of the request carrying that name
RecordOfTeacher(teacher) ==
    LET recs == {i \in DOMAIN request.availability :
                    request.availability[i].teacher = teacher}
    IN request.availability[CHOOSE i \in recs : \A j \in recs : j <= i]

RECURSIVE EntryHours(_, _, _)
EntryHours(sch, id, n) ==
    IF n > Len(sch) THEN 0
    ELSE (IF sch[n].InstructorId = id
          THEN (IF sch[n].Type = THEORY THEN 2 ELSE 1) ELSE 0)
         + EntryHours(sch, id, n + 1)

\* C4: in every returned schedule, for every InstructorId the sum over that
\* instructor's entries of (2 if THEORY else 1) is at most the maxHours of
\* that instructor's availability record (the record with that teacherId).
\* Stated here for the requests whose group ids, teacher names and teacherIds
\* are each pairwise distinct, a part of the requests the claim covers.
C4_HoursWithinBudgetPerInstructorId ==
    (ScheduleReturned /\ DistinctRecords) =>
        \A id \in {response.schedule[n].InstructorId : n \in DOMAIN response.schedule} :
            \E a \in Range(request.availability) :
                /\ a.teacherId = id
                /\ EntryHours(response.schedule, id, 1) <= a.maxHours

\* C5: in every returned schedule no two distinct entries with the same
\* CourseId have the same (DayId, TimeId).
C5_NoCourseOverlap ==
    ScheduleReturned =>
        \A m, n \in DOMAIN response.schedule :
            (m # n /\ response.schedule[m].CourseId = response.schedule[n].CourseId)
                => ~SameSlotEntries(response.schedule[m], response.schedule[n])

\* a returned schedule with two groups of one course taught by different
\* instructors, both free at a common slot, in a request allowing two courses
\* per slot
C5_Witness ==
    /\ ScheduleReturned
    /\ request.max_courses_per_slot = 2
    /\ Len(request.groups) = 2
    /\ request.groups[1].courseId = request.groups[2].courseId
    /\ request.groups[1].instructor # request.groups[2].instructor
    /\ request.groups[1].id # request.groups[2].id
    /\ \E sl \in Range(RecordOfTeacher("A").slots) :
          sl \in Range(RecordOfTeacher("B").slots)

\* the instructors with assigned groups, as the validator identifies them
AssignedInstructorIds == {g.instructorId : g \in Range(request.groups)}

\* every group's instructor has an availability record
EveryInstructorHasRecord ==
    \A g \in Range(request.groups) :
        /\ \E a \in Range(request.availability) : a.teacher = g.instructor
        /\ \E a \in Range(request.availability) : a.teacherId = g.instructorId

\* the availability record of an instructor id: the last one with that id
RecordOfId(id) ==
    LET recs == {i \in DOMAIN request.availability :
                    request.availability[i].teacherId = id}
    IN request.availability[CHOOSE i \in recs : \A j \in recs : j <= i]

CheckNames == <<"InsufficientSlots", "ZeroHourBudgetViolation", "HourBudgetExceeded">>

\* whether the check of the given number is violated for the instructor
CheckViolated(id, check) ==
    LET total == sessions_per_instructor(request, id)
        a == RecordOfId(id)
    IN CASE check = 1 -> Len(a.slots) < total
         [] check = 2 -> a.maxHours = 0 /\ total > 0
         [] check = 3 -> a.maxHours > 0 /\ total > a.maxHours

ViolatedChecks ==
    {p \in AssignedInstructorIds \X (1..3) : CheckViolated(p[1], p[2])}

\* C8: when every group's instructor has an availability record, the errors
\* list holds exactly one message for every violated check of every
\* instructor with assigned groups; if there is one, the request ends with a
\* 400 carrying the whole list, no Solve call and no schedule.
C8_AllViolationsReportedTogether ==
    (EveryInstructorHasRecord /\ pc # "lookup") =>
        /\ \A p \in AssignedInstructorIds \X (1..3) :
              Cardinality({n \in DOMAIN errors :
                  errors[n][1] = CheckNames[p[2]] /\ errors[n][3] = p[1]})
                = (IF p \in ViolatedChecks THEN 1 ELSE 0)
        /\ Len(errors) = Cardinality(ViolatedChecks)
        /\ ViolatedChecks # {} =>
              /\ pc = "done"
              /\ response.status = 400
              /\ response.detail = errors
              /\ solverCalls = 0
              /\ "schedule" \notin DOMAIN response

\* a request rejected with two messages for one instructor and a message for
\* another one
C8_Witness ==
    /\ EveryInstructorHasRecord
    /\ pc = "done"
    /\ response.status = 400
    /\ Len(errors) >= 3
    /\ \E m, n \in DOMAIN errors : m # n /\ errors[m][3] = errors[n][3]
    /\ \E m, n \in DOMAIN errors : errors[m][3] # errors[n][3]

\* instructor names and ids correspond one-to-one over the whole request
NamesAndIdsOneToOne ==
    LET pairs == {<<g.instructor, g.instructorId>> : g \in Range(request.groups)}
                 \cup {<<a.teacher, a.teacherId>> : a \in Range(request.availability)}
    IN \A p, q \in pairs : (p[1] = q[1]) <=> (p[2] = q[2])

OneRecordPerInstructor ==
    \A g \in Range(request.groups) :
        Cardinality({i \in DOMAIN request.availability :
            request.availability[i].teacher = g.instructor}) = 1

PositiveSessions == \A g \in Range(request.groups) : g.sessions > 0

C10_Precondition ==
    NamesAndIdsOneToOne /\ OneRecordPerInstructor /\ PositiveSessions

RECURSIVE WeightedHours(_, _, _)
WeightedHours(groups, inst, i) ==
    IF i > Len(groups) THEN 0
    ELSE (IF groups[i].instructor = inst
          THEN groups[i].sessions * (IF groups[i].type = THEORY THEN 2 ELSE 1)
          ELSE 0)
         + WeightedHours(groups, inst, i + 1)

RECURSIVE RawSessions(_, _, _)
RawSessions(groups, inst, i) ==
    IF i > Len(groups) THEN 0
    ELSE (IF groups[i].instructor = inst THEN groups[i].sessions ELSE 0)
         + RawSessions(groups, inst, i + 1)

\* some instructor's raw session count fits maxHours, the weighted sum does not
RawFitsWeightedDoesNot ==
    \E g \in Range(request.groups) :
        LET mh == RecordOfTeacher(g.instructor).maxHours
        IN /\ RawSessions(request.groups, g.instructor, 1) <= mh
           /\ WeightedHours(request.groups, g.instructor, 1) > mh

ValidationPassed == pc \in {"solve", "collect"} \/ (pc = "done" /\ solverCalls > 0)

NoFeasibleSchedule ==
    /\ pc = "done"
    /\ response = [status |-> 400, detail |-> "No feasible schedule found."]

\* C10: for requests with one-to-one instructor names and ids, one
\* availability record per instructor and positive session counts: (a) when
\* the validator reports a violation the six-constraint model has no
\* solution; (b) a request that passes validation although some instructor's
\* weighted hours exceed maxHours is never given a schedule, it ends with
\* "No feasible schedule found." after the solve.
C10_ValidatorNecessaryNotSufficient ==
    C10_Precondition =>
        /\ (pc # "lookup" /\ errors # <<>>) => Solutions(request) = {}
        /\ (ValidationPassed /\ RawFitsWeightedDoesNot) =>
              /\ pc # "collect"
              /\ pc = "done" => (NoFeasibleSchedule /\ solverCalls = 1)

\* the converse fails: a request that passed validation and was rejected by
\* the solve for its weighted hours
C10_Witness ==
    /\ C10_Precondition
    /\ RawFitsWeightedDoesNot
    /\ errors = <<>>
    /\ solverCalls = 1
    /\ NoFeasibleSchedule

\* ========================================================================
\* Properties of distribute_groups (checked under SpecRooms)
\* ========================================================================
DistributionReturned == pc = "done" /\ response.status = 200

\* what an output entry passes through from its scheduled group
Passthrough(e) == <<e.id, e.slot, e.number_size, e.type>>
Described(g) == <<g.id, g.slot, g.students_count, g.type>>

\* C6: in every returned distribution every input ScheduledGroup appears
\* exactly once, with the roomId of a supplied Room of capacity >= the
\* group's students_count and of the group's type.
C6_EveryGroupOnceInCompatibleRoom ==
    DistributionReturned =>
        LET out == response.scheduled_groups
            inp == request.scheduled_groups
        IN /\ Len(out) = Len(inp)
           /\ \A i \in DOMAIN inp :
                 Cardinality({n \in DOMAIN out : Passthrough(out[n]) = Described(inp[i])})
                   = Cardinality({j \in DOMAIN inp : Described(inp[j]) = Described(inp[i])})
           /\ \A n \in DOMAIN out : \E r \in Range(request.rooms) :
                 /\ r.id = out[n].roomId
                 /\ r.capacity >= out[n].number_size
                 /\ r.course_type = out[n].type

\* a returned distribution of two groups, with a supplied room too small for
\* one of them and a supplied room of the other type
C6_Witness ==
    /\ DistributionReturned
    /\ Len(response.scheduled_groups) = 2
    /\ \E g \in Range(request.scheduled_groups) : \E r, q \in Range(request.rooms) :
          /\ r.capacity < g.students_count /\ r.course_type = g.type
          /\ q.course_type # g.type

\* C7: in every returned distribution no two distinct entries at the same
\* (dayId, timeId) carry the same roomId.
C7_NoRoomDoubleBooking ==
    DistributionReturned =>
        \A m, n \in DOMAIN response.scheduled_groups :
            LET e == response.scheduled_groups[m]
                f == response.scheduled_groups[n]
            IN (m # n /\ e.slot.dayId = f.slot.dayId /\ e.slot.timeId = f.slot.timeId)
                  => e.roomId # f.roomId

\* a returned distribution with two groups in one slot that both fit one room
C7_Witness ==
    /\ DistributionReturned
    /\ \E m, n \in DOMAIN response.scheduled_groups :
          /\ m # n
          /\ SlotOf(response.scheduled_groups[m]) = SlotOf(response.scheduled_groups[n])
    /\ \E r \in Range(request.rooms) : \A g \in Range(request.scheduled_groups) :
          r.capacity >= g.students_count /\ r.course_type = g.type

OccupiedSlots == {SlotOf(g) : g \in Range(request.scheduled_groups)}

\* the groups of a slot can be put into pairwise distinct compatible rooms
SlotAdmitsRooms(slot) ==
    LET inSlot == {i \in DOMAIN request.scheduled_groups :
                      SlotOf(request.scheduled_groups[i]) = slot}
    IN \E f \in [inSlot -> DOMAIN request.rooms] :
          /\ \A i \in inSlot :
                /\ request.rooms[f[i]].capacity
                      >= request.scheduled_groups[i].students_count
                /\ request.rooms[f[i]].course_type = request.scheduled_groups[i].type
          /\ \A i, j \in inSlot :
                i # j => request.rooms[f[i]].id # request.rooms[f[j]].id

DistributionIffEverySlotAdmitsRooms ==
    /\ response.status = 200 <=> \A slot \in OccupiedSlots : SlotAdmitsRooms(slot)
    /\ response.status # 200 =>
          /\ response.status = 400
          /\ \E slot \in OccupiedSlots :
                /\ ~SlotAdmitsRooms(slot)
                /\ response.detail =
                      <<"No feasible room assignment for slot", slot[1], slot[2]>>
          /\ "scheduled_groups" \notin DOMAIN response

\* C9 as stated: a distribution is returned if and only if every occupied
\* slot admits an assignment of its groups to pairwise distinct compatible
\* rooms; otherwise the request fails with a 400 naming an infeasible slot
\* and no room binding is returned.
C9_AsStated == (pc = "done") => DistributionIffEverySlotAdmitsRooms

DistinctRoomIds ==
    \A i, j \in DOMAIN request.rooms :
        i # j => request.rooms[i].id # request.rooms[j].id

DistinctGroupIdsPerSlot ==
    \A i, j \in DOMAIN request.scheduled_groups :
        (i # j /\ SlotOf(request.scheduled_groups[i]) = SlotOf(request.scheduled_groups[j]))
            => request.scheduled_groups[i].id # request.scheduled_groups[j].id

\* C9 amended: when the supplied rooms have pairwise distinct ids and no two
\* groups of one slot share an id, a distribution is returned if and only if
\* every occupied slot admits an assignment of its groups to pairwise
\* distinct compatible rooms; otherwise the request fails with a 400 naming
\* an infeasible slot and no room binding is returned.
C9_DistinctIds ==
    (pc = "done" /\ DistinctRoomIds /\ DistinctGroupIdsPerSlot)
        => DistributionIffEverySlotAdmitsRooms

\* a request with distinct ids failing at its second slot, the first slot
\* already solved
C9_Witness ==
    /\ pc = "done"
    /\ DistinctRoomIds
    /\ DistinctGroupIdsPerSlot
    /\ response.status = 400
    /\ Len(final_distribution) >= 1
    /\ solverCalls = 2

====
